---- MODULE Spec2Model ----
(***************************************************************************)
(* FaceRecognitionProcessor (attendance_system/core/face_recognition.py).  *)
(*                                                                         *)
(* One processor object, the thread that calls start_camera and            *)
(* run_recognition, and a second thread that may call stop() at any time.  *)
(* The wall clock (time.time() / datetime.now()) is the integer `now`,     *)
(* advanced by Tick inside every call that takes time, so the capture, the *)
(* comparator calls, the callback and the sleep may take any time.         *)
(***************************************************************************)
EXTENDS Integers, Sequences, FiniteSets, TLC

\* ------------------------------------------------------------------ bounds
MaxTime == 5          \* the clock runs from 0 to MaxTime
MaxInterval == 2      \* recognition_interval is drawn from 2..MaxInterval
MaxFiles == 2         \* longest directory listing of the scan specification
MaxDir == 1           \* longest directory listing inside the run loop
MaxCount == 2         \* the history counters saturate here

\* --------------------------------------------------------------- constants
text_duration == 2    \* self.text_duration
None == -1            \* Python None in a field that holds a time
NoCode == "None"      \* Python None in a field that holds an enrollment code

Stems == {"E100", "E200"}
Exts == {"jpg", "PNG", "txt"}
Sims == {80, 92}

Min(a, b) == IF a < b THEN a ELSE b
Bump(n) == Min(n + 1, MaxCount)

\* ---------------------------------------------------------- the directory
\* A directory entry is a file name, kept as its stem and its extension.
Files == [stem : Stems, ext : Exts]

Lower(e) == IF e = "PNG" THEN "png" ELSE e

\* face_file.lower().endswith(('.png', '.jpg', '.jpeg'))
IsImageFile(f) == Lower(f.ext) \in {"png", "jpg", "jpeg"}

\* os.path.splitext(face_file)[0]
EnrollmentCode(f) == f.stem

\* What happens to one reference: open() fails, compare_faces raises,
\* compare_faces returns no FaceMatches, or FaceMatches[0] has a Similarity.
Outcomes ==
    [kind : {"readfail", "error", "nomatch"}, sim : {0}] \cup [kind : {"match"}, sim : Sims]

SeqsUpTo(S, n) == UNION {[1..k -> S] : k \in 0..n}

\* A scan input: the listing os.listdir returns (file names, so no entry
\* twice) and, per entry, what the file system and the comparator answer for it.
ScanInputs(files, outs, n) ==
    {in \in [dir : SeqsUpTo(files, n), out : SeqsUpTo(outs, n)] :
        /\ Len(in.dir) = Len(in.out)
        /\ \A i, j \in 1..Len(in.dir) : i # j => in.dir[i] # in.dir[j]}

\* The inputs of the scan specification, and those of a match cycle of the loop.
AllInputs == ScanInputs(Files, Outcomes, MaxFiles)
LoopInputs ==
    ScanInputs({f \in Files : f.ext = "jpg"}, {o \in Outcomes : o.sim # 80}, MaxDir)

NoMatch == [code |-> NoCode, sim |-> 0]

\* ------------------------------------------------------------------ state
VARIABLES
    now,                    \* the wall clock
    recognition_interval,   \* self.recognition_interval
    last_recognition_times, \* self.last_recognition_times: code -> time or None
    camera,                 \* self.camera: "None", "open", "unopened", "released"
    is_running,             \* self.is_running
    last_recognition_text,  \* self.last_recognition_text: a code or NoCode
    text_display_time,      \* self.text_display_time
    window,                 \* the 'Smart Check' window exists
    pc,                     \* position of the thread that runs the loop
    last_process_time,      \* local of run_recognition
    current_time,           \* local of run_recognition
    scan,                   \* locals of compare_with_stored_faces
    result,                 \* (enrollment_code, similarity) of the scan
    spc,                    \* position of the thread that calls stop()
    events,                 \* the records passed to the callback, in order
    hist                    \* observations of the current run and iteration

vars == <<now, recognition_interval, last_recognition_times, camera, is_running,
          last_recognition_text, text_display_time, window, pc, last_process_time,
          current_time, scan, result, spc, events, hist>>

proc == <<recognition_interval, last_recognition_times, camera, is_running,
          last_recognition_text, text_display_time, window>>

NoScan == [dir |-> <<>>, out |-> <<>>, idx |-> 0, calls |-> <<>>]

NoRender == [drawn |-> FALSE, at |-> None, frame |-> None, shown_since |-> None]

HistInit ==
    [ stop_called |-> FALSE,     \* stop() was called since run_recognition was called
      iters |-> 0,               \* loop iterations begun after that stop()
      cycles |-> 0,              \* match cycles begun after that stop()
      callbacks |-> 0,           \* callback invocations after that stop()
      exit |-> "none",           \* how run_recognition returned
      err |-> "none",            \* the error the last step of the loop met
      gate |-> "none",           \* what the cooldown gate did in this match cycle
      handled |-> None,          \* current_time of handle_recognition in this cycle
      pre_text |-> NoCode,       \* the overlay when the match cycle began
      pre_time |-> None,
      pre_events |-> 0,
      pre_times |-> [c \in Stems |-> None],
      cycle_frame |-> [c \in Stems |-> None], \* frame time of the cycle that last accepted c
      prev_cycle |-> None,       \* frame time of the last match cycle of this run, or its entry
      due |-> "none",            \* whether this iteration's capture began a match cycle
      start_error |-> FALSE,     \* the last start_camera raised to its caller
      render |-> NoRender ]      \* the last frame rendered

Init ==
    /\ now = 0
    /\ recognition_interval \in 2..MaxInterval
    /\ last_recognition_times = [c \in Stems |-> None]
    /\ camera = "None"
    /\ is_running = FALSE
    /\ last_recognition_text = NoCode
    /\ text_display_time = None
    /\ window = FALSE
    /\ pc = "idle"
    /\ last_process_time = None
    /\ current_time = None
    /\ scan = NoScan
    /\ result = NoMatch
    /\ spc = "idle"
    /\ events = <<>>
    /\ hist = HistInit

\* ------------------------------------------------------------------ clock
\* Time passes while the loop thread is outside run_recognition or inside a call
\* that takes time: camera.read(), compare_faces, the callback, time.sleep().
Blocking == pc \in {"idle", "returned", "entry", "read", "scan", "overlay", "sleep"}

Tick ==
    /\ now < MaxTime
    /\ Blocking
    /\ now' = now + 1
    /\ UNCHANGED <<proc, pc, last_process_time, current_time, scan, result, spc,
                   events, hist>>


\* ------------------------------------------------------------------ stop()
\* stop(), lines 188-191, as three assignments to (is_running, camera, window).
StopFlag(r) == FALSE

StopCamera_Toggles(cam) == IF cam \in {"None", "released"} THEN "open" ELSE "released"

StopCamera(cam) == IF cam = "None" THEN cam ELSE "released"

StopWindow(w) == FALSE

\* One whole call of stop() on (is_running, camera, window, last_recognition_times).
stop(s) == <<StopFlag(s[1]), StopCamera(s[2]), StopWindow(s[3]), s[4]>>

\* stop() called by the other thread: its three statements interleave with the loop.
StopCall_ClearsTable ==
    /\ spc = "idle"
    /\ is_running' = StopFlag(is_running)
    /\ last_recognition_times' = [c \in Stems |-> None]
    /\ spc' = "release"
    /\ hist' = [hist EXCEPT !.stop_called = TRUE]
    /\ UNCHANGED <<now, recognition_interval, camera,
                   last_recognition_text, text_display_time, window, pc,
                   last_process_time, current_time, scan, result, events>>

StopCall ==
    /\ spc = "idle"
    /\ is_running' = StopFlag(is_running)
    /\ spc' = "release"
    /\ hist' = [hist EXCEPT !.stop_called = TRUE]
    /\ UNCHANGED <<now, recognition_interval, last_recognition_times, camera,
                   last_recognition_text, text_display_time, window, pc,
                   last_process_time, current_time, scan, result, events>>

StopRelease ==
    /\ spc = "release"
    /\ camera' = StopCamera(camera)
    /\ spc' = "destroy"
    /\ UNCHANGED <<now, recognition_interval, last_recognition_times, is_running,
                   last_recognition_text, text_display_time, window, pc,
                   last_process_time, current_time, scan, result, events, hist>>

StopDestroy ==
    /\ spc = "destroy"
    /\ window' = StopWindow(window)
    /\ spc' = "idle"
    /\ UNCHANGED <<now, recognition_interval, last_recognition_times, camera,
                   is_running, last_recognition_text, text_display_time, pc,
                   last_process_time, current_time, scan, result, events, hist>>

\* ---------------------------------------------------------- start_camera
StartRaises_Never(opened) == FALSE

\* lines 131-132 and 134-136: the error of a device that is not opened
\* reaches the caller.
StartRaises(opened) == ~opened

\* cv2.VideoCapture(camera_index) opens the device (opened) or not.
start_camera(opened) ==
    /\ pc \in {"idle", "returned"}
    /\ camera' = IF opened THEN "open" ELSE "unopened"
    /\ pc' = "idle"
    /\ hist' = [hist EXCEPT !.start_error = StartRaises(opened)]
    /\ UNCHANGED <<now, recognition_interval, last_recognition_times, is_running,
                   last_recognition_text, text_display_time, window,
                   last_process_time, current_time, scan, result, spc, events>>

\* -------------------------------------------------------- run_recognition
\* The caller invokes run_recognition(callback).
CallRun ==
    /\ pc \in {"idle", "returned"}
    /\ pc' = "entry"
    /\ hist' = [hist EXCEPT !.stop_called = FALSE, !.iters = 0, !.cycles = 0,
                            !.callbacks = 0, !.exit = "none", !.err = "none",
                            !.render = NoRender, !.start_error = FALSE]
    /\ UNCHANGED <<now, proc, last_process_time, current_time, scan, result, spc,
                   events>>

\* lines 140-141
RunEntry ==
    /\ pc = "entry"
    /\ is_running' = TRUE
    /\ last_process_time' = now
    /\ pc' = "while"
    /\ hist' = [hist EXCEPT !.prev_cycle = now]
    /\ UNCHANGED <<now, recognition_interval, last_recognition_times, camera,
                   last_recognition_text, text_display_time, window, current_time,
                   scan, result, spc, events>>

\* line 143: while self.is_running
LoopCheck ==
    /\ pc = "while"
    /\ IF is_running
         THEN /\ pc' = "read"
              /\ hist' = [hist EXCEPT !.err = "none",
                            !.iters = IF hist.stop_called THEN Bump(@) ELSE @]
              /\ UNCHANGED <<last_process_time, current_time>>
         ELSE /\ pc' = "returned"
              /\ hist' = [hist EXCEPT !.err = "none", !.exit = "stopped",
                                      !.prev_cycle = None]
              /\ last_process_time' = None
              /\ current_time' = None
    /\ UNCHANGED <<now, proc, scan, result, spc, events>>

\* Where the loop goes after a failed capture (line 148: continue).
AfterFailedCapture_Breaks == "returned"

AfterFailedCapture == "while"

CycleDue_Strict(ct, lpt, interval) == (ct - lpt) > interval

\* line 152
CycleDue(ct, lpt, interval) == (ct - lpt) >= interval

\* lines 145-152: read a frame, take the time, decide whether a match cycle is due.
Capture(ret) ==
    /\ pc = "read"
    /\ IF camera = "None"
         THEN \* None.read(): AttributeError, caught at line 180
              /\ pc' = "sleep"
              /\ hist' = [hist EXCEPT !.err = "exception"]
              /\ UNCHANGED current_time
         ELSE IF camera = "open" /\ ret
         THEN /\ current_time' = now
              /\ pc' = IF CycleDue(now, last_process_time, recognition_interval)
                         THEN "process" ELSE "display"
              /\ hist' = [hist EXCEPT !.err = "none",
                            !.due = IF CycleDue(now, last_process_time,
                                                recognition_interval)
                                      THEN "cycle" ELSE "skip"]
         ELSE /\ pc' = AfterFailedCapture
              /\ hist' = [hist EXCEPT !.err = "capture"]
              /\ UNCHANGED current_time
    /\ UNCHANGED <<now, proc, last_process_time, scan, result, spc, events>>


\* ---------------------------------------------- compare_with_stored_faces
\* What the loop body of lines 47-76 does with entry f when the file system
\* and the comparator answer o: "skip" the file (line 49), "abort" the scan
\* (an exception outside the inner try, caught at line 80), "return" the match
\* (line 72), or go on to the "next" entry (no FaceMatches, or line 76).
ScanEntry_NoReturn(f, o) ==
    IF ~IsImageFile(f) THEN "skip"
    ELSE IF o.kind = "readfail" THEN "abort"
    ELSE "next"

ScanEntry_ErrorAborts(f, o) ==
    IF ~IsImageFile(f) THEN "skip"
    ELSE IF o.kind \in {"readfail", "error"} THEN "abort"
    ELSE IF o.kind = "match" THEN "return"
    ELSE "next"

ScanEntry(f, o) ==
    IF ~IsImageFile(f) THEN "skip"
    ELSE IF o.kind = "readfail" THEN "abort"
    ELSE IF o.kind = "match" THEN "return"
    ELSE "next"

\* compare_faces is called for the entry: it is an image and was read.
Compared(f, o) == IsImageFile(f) /\ o.kind # "readfail"

\* process_frame begins (line 111); cv2.imencode or os.listdir raises (line 80).
ScanFailure ==
    /\ pc = "process"
    /\ result' = NoMatch
    /\ scan' = NoScan
    /\ pc' = "scanned"
    /\ hist' = [hist EXCEPT !.err = "scan", !.gate = "none",
                  !.cycles = IF hist.stop_called THEN Bump(@) ELSE @,
                  !.prev_cycle = current_time,
                  !.pre_text = last_recognition_text, !.pre_time = text_display_time,
                  !.pre_events = Len(events), !.pre_times = last_recognition_times]
    /\ UNCHANGED <<now, proc, last_process_time, current_time, spc, events>>

\* process_frame begins (line 111); lines 43-47 encode the frame and list the directory.
ScanStart(inputs) ==
    /\ pc = "process"
    /\ \E in \in inputs :
          scan' = [dir |-> in.dir, out |-> in.out, idx |-> 1, calls |-> <<>>]
    /\ result' = NoMatch
    /\ pc' = "scan"
    /\ hist' = [hist EXCEPT !.err = "none", !.gate = "none",
                  !.cycles = IF hist.stop_called THEN Bump(@) ELSE @,
                  !.prev_cycle = current_time,
                  !.pre_text = last_recognition_text, !.pre_time = text_display_time,
                  !.pre_events = Len(events), !.pre_times = last_recognition_times]
    /\ UNCHANGED <<now, proc, last_process_time, current_time, spc, events>>

\* One pass of the for loop of lines 47-76, or its end (line 78).
ScanStep ==
    /\ pc = "scan"
    /\ IF scan.idx > Len(scan.dir)
         THEN /\ result' = NoMatch
              /\ pc' = "scanned"
              /\ hist' = [hist EXCEPT !.err = "none"]
              /\ UNCHANGED scan
         ELSE LET f == scan.dir[scan.idx]
                  o == scan.out[scan.idx]
                  does == ScanEntry(f, o)
                  calls == IF Compared(f, o) THEN Append(scan.calls, scan.idx)
                                             ELSE scan.calls
              IN  /\ scan' = [scan EXCEPT !.calls = calls,
                                !.idx = IF does \in {"skip", "next"} THEN @ + 1 ELSE @]
                  /\ result' = IF does = "return"
                                 THEN [code |-> EnrollmentCode(f), sim |-> o.sim]
                                 ELSE NoMatch
                  /\ pc' = IF does \in {"abort", "return"} THEN "scanned" ELSE "scan"
                  /\ hist' = [hist EXCEPT !.err =
                                IF does = "abort" THEN "scan"
                                ELSE IF Compared(f, o) /\ o.kind = "error" THEN "comparator"
                                ELSE "none"]
    /\ UNCHANGED <<now, proc, last_process_time, current_time, spc, events>>

\* --------------------------------------------------------- process_frame
\* line 112 when enrollment_code is None: process_frame returns and line 155 runs.
NoRecognition ==
    /\ pc = "scanned"
    /\ result.code = NoCode
    /\ last_process_time' = current_time
    /\ scan' = NoScan
    /\ pc' = "display"
    /\ hist' = [hist EXCEPT !.err = "none"]
    /\ UNCHANGED <<now, proc, current_time, result, spc, events>>

\* line 112 when a reference matched: handle_recognition is called.
Recognition ==
    /\ pc = "scanned"
    /\ result.code # NoCode
    /\ scan' = NoScan
    /\ pc' = "handle"
    /\ hist' = [hist EXCEPT !.err = "none"]
    /\ UNCHANGED <<now, proc, last_process_time, current_time, result, spc, events>>

InCooldown_Reversed(times, code, ct, interval) ==
    /\ times[code] # None
    /\ (ct - times[code]) > interval

InCooldown_Inclusive(times, code, ct, interval) ==
    /\ times[code] # None
    /\ (ct - times[code]) <= interval

\* lines 89-92: the cooldown gate.
InCooldown(times, code, ct, interval) ==
    /\ times[code] # None
    /\ (ct - times[code]) < interval

Accept_Dropped(times, code, ct) == times

\* line 95
Accept(times, code, ct) == [times EXCEPT ![code] = ct]

\* Where process_frame goes when the gate returns early (line 92): to line 115.
AfterSuppressed_SkipsOverlay == "display"

AfterSuppressed == "overlay"

\* Where process_frame goes when the callback raises (caught at line 119).
AfterCallbackRaise_Propagates == "returned"

AfterCallbackRaise == "display"

\* handle_recognition, lines 86-106. The callback returns, raises, or calls stop().
handle_recognition(cb) ==
    /\ pc = "handle"
    /\ IF InCooldown(last_recognition_times, result.code, now, recognition_interval)
         THEN /\ pc' = AfterSuppressed
              /\ hist' = [hist EXCEPT !.gate = "suppressed", !.handled = now,
                                      !.err = "none"]
              /\ UNCHANGED <<last_recognition_times, events, is_running, camera,
                             window, last_process_time>>
         ELSE /\ last_recognition_times' =
                    Accept(last_recognition_times, result.code, now)
              /\ events' = Append(events, [student_id |-> result.code,
                                           capture_timestamp |-> now,
                                           confidence_score |-> result.sim])
              /\ hist' = [hist EXCEPT !.gate = "accepted", !.handled = now,
                            !.err = IF cb = "raise" THEN "callback" ELSE "none",
                            !.callbacks = IF hist.stop_called THEN Bump(@) ELSE @,
                            !.stop_called = @ \/ cb = "stop",
                            !.cycle_frame = [@ EXCEPT ![result.code] = current_time]]
              /\ is_running' = IF cb = "stop" THEN StopFlag(is_running) ELSE is_running
              /\ camera' = IF cb = "stop" THEN StopCamera(camera) ELSE camera
              /\ window' = IF cb = "stop" THEN StopWindow(window) ELSE window
              /\ pc' = IF cb = "raise" THEN AfterCallbackRaise ELSE "overlay"
              /\ last_process_time' =
                    IF cb = "raise" THEN current_time ELSE last_process_time
    /\ UNCHANGED <<now, recognition_interval, last_recognition_text,
                   text_display_time, current_time, scan, result, spc>>

\* lines 115-116, then process_frame returns and line 155 runs.
Overlay ==
    /\ pc = "overlay"
    /\ last_recognition_text' = result.code
    /\ text_display_time' = now
    /\ last_process_time' = current_time
    /\ pc' = "display"
    /\ UNCHANGED <<now, recognition_interval, last_recognition_times, camera,
                   is_running, window, current_time, scan, result, spc, events, hist>>

\* ------------------------------------------------------ render and display
\* Python truth of a field that holds a time: None and 0 are false.
Truthy(t) == t # None /\ t # 0

InWindow_Strict(ct, tdt) == (ct - tdt) < text_duration

\* line 159
InWindow(ct, tdt) == (ct - tdt) <= text_duration

\* lines 158-178: draw the overlay or clear it, show the frame, poll the keyboard.
\* imshow raises (shown = FALSE) or shows; waitKey reports the key. The locals
\* are dropped where the code cannot read them again: current_time is assigned
\* anew (line 151) before its next use, recognition_result (line 154) is never
\* read, and a return ends last_process_time.
Display(shown, key) ==
    /\ pc = "display"
    /\ LET has == last_recognition_text # NoCode /\ Truthy(text_display_time)
           draw == has /\ InWindow(current_time, text_display_time)
       IN  /\ IF has /\ ~draw
                THEN /\ last_recognition_text' = NoCode
                     /\ text_display_time' = None
                ELSE UNCHANGED <<last_recognition_text, text_display_time>>
           /\ hist' = [hist EXCEPT
                         !.err = IF shown THEN "none" ELSE "exception",
                         !.exit = IF shown /\ key = "q" THEN "q" ELSE @,
                         !.gate = "none", !.handled = None, !.due = "none",
                         !.prev_cycle = IF shown /\ key = "q" THEN None ELSE @,
                         !.pre_text = NoCode, !.pre_time = None,
                         !.pre_events = 0, !.pre_times = [c \in Stems |-> None],
                         !.render = IF shown
                                      THEN [drawn |-> draw, at |-> now,
                                            frame |-> current_time,
                                            shown_since |-> IF has THEN text_display_time
                                                                   ELSE None]
                                      ELSE NoRender]
    /\ window' = IF shown THEN TRUE ELSE window
    /\ pc' = IF shown /\ key = "q" THEN "returned" ELSE "sleep"
    /\ last_process_time' = IF shown /\ key = "q" THEN None ELSE last_process_time
    /\ current_time' = None
    /\ result' = NoMatch
    /\ UNCHANGED <<now, recognition_interval, last_recognition_times, camera,
                   is_running, scan, spc, events>>

\* line 184
Sleep ==
    /\ pc = "sleep"
    /\ pc' = "while"
    /\ hist' = [hist EXCEPT !.err = "none", !.render = NoRender]
    /\ UNCHANGED <<now, proc, last_process_time, current_time, scan, result, spc,
                   events>>

\* ---------------------------------------------------------- specification
Stop == StopCall \/ StopRelease \/ StopDestroy

Next ==
    \/ Tick
    \/ \E opened \in BOOLEAN : start_camera(opened)
    \/ CallRun
    \/ RunEntry
    \/ LoopCheck
    \/ \E ret \in BOOLEAN : Capture(ret)
    \/ ScanFailure
    \/ ScanStart(LoopInputs)
    \/ ScanStep
    \/ NoRecognition
    \/ Recognition
    \/ \E cb \in {"return", "raise", "stop"} : handle_recognition(cb)
    \/ Overlay
    \/ \E shown \in BOOLEAN, key \in {"q", "none"} : Display(shown, key)
    \/ Sleep
    \/ Stop

Spec == Init /\ [][Next]_vars


\* The match cycle alone: process_frame is about to scan, for every listing
\* and every answer of the file system and of the comparator.
ScanInit ==
    /\ now = 2
    /\ recognition_interval = 2
    /\ last_recognition_times = [c \in Stems |-> None]
    /\ camera = "open"
    /\ is_running = TRUE
    /\ last_recognition_text = NoCode
    /\ text_display_time = None
    /\ window = FALSE
    /\ pc = "process"
    /\ last_process_time = 0
    /\ current_time = 2
    /\ scan = NoScan
    /\ result = NoMatch
    /\ spc = "idle"
    /\ events = <<>>
    /\ hist = HistInit

ScanNext == ScanFailure \/ ScanStart(AllInputs) \/ ScanStep

ScanSpec == ScanInit /\ [][ScanNext]_vars

\* ------------------------------------------------------- the scan's claims
ImageIndices(dir) == {i \in 1..Len(dir) : IsImageFile(dir[i])}

Matching(dir, out) == {i \in ImageIndices(dir) : out[i].kind = "match"}

Least(S) == CHOOSE m \in S : \A k \in S : m <= k

Called(calls) == {calls[k] : k \in 1..Len(calls)}

Readable(dir, out) == \A i \in ImageIndices(dir) : out[i].kind # "readfail"

\* C4 (first-match-wins): when compare_with_stored_faces has returned and every
\* reference image could be read, the result is the filename stem and the
\* similarity of the first image file of the listing whose comparison matched,
\* the comparator was called for exactly the image files up to that one, in
\* listing order, and for none after it; when no reference matched the result
\* is (None, 0) and every image file was compared.
C4_FirstMatchWins ==
    (pc = "scanned" /\ Readable(scan.dir, scan.out)) =>
        LET M == Matching(scan.dir, scan.out)
            upto == IF M = {} THEN Len(scan.dir) ELSE Least(M)
        IN  /\ result = IF M = {} THEN NoMatch
                        ELSE [code |-> scan.dir[Least(M)].stem,
                              sim |-> scan.out[Least(M)].sim]
            /\ Called(scan.calls) = {i \in ImageIndices(scan.dir) : i <= upto}
            /\ \A k \in 1..(Len(scan.calls) - 1) : scan.calls[k] < scan.calls[k + 1]

\* Two references match the frame, the later one with the higher similarity,
\* and the scan has returned the earlier one.
C4_Witness ==
    /\ pc = "scanned"
    /\ \E i, j \in Matching(scan.dir, scan.out) :
          /\ i < j
          /\ scan.dir[i].stem # scan.dir[j].stem
          /\ scan.out[i].sim < scan.out[j].sim
          /\ result.code = scan.dir[i].stem
          /\ result.sim = scan.out[i].sim

\* C5: a reference whose compare_faces call raised is skipped: every image file
\* after it, up to the first one that matches or cannot be read, is still
\* compared, and when that first one matches it is the result of the scan.
C5_ComparatorErrorSkipped ==
    pc = "scanned" =>
        \A i \in Called(scan.calls) :
            scan.out[i].kind = "error" =>
                \A j \in ImageIndices(scan.dir) :
                    (/\ j > i
                     /\ \A k \in ImageIndices(scan.dir) :
                           k < j => scan.out[k].kind \in {"error", "nomatch"})
                    => /\ scan.out[j].kind # "readfail" => j \in Called(scan.calls)
                       /\ scan.out[j].kind = "match" =>
                             result = [code |-> scan.dir[j].stem,
                                       sim |-> scan.out[j].sim]

\* The comparator raised for the first reference and the second one is the match.
C5_Witness ==
    /\ pc = "scanned"
    /\ Len(scan.dir) = 2
    /\ scan.calls = <<1, 2>>
    /\ scan.out[1].kind = "error"
    /\ scan.out[2].kind = "match"
    /\ result.code = scan.dir[2].stem


\* ------------------------------------------------------- the loop's claims
SameIdentity(i, j) == events[i].student_id = events[j].student_id

LastEvent == events[Len(events)]

\* The gate of this match cycle has decided and the iteration is not over.
Gated(g) == hist.gate = g /\ pc \in {"overlay", "display"}

\* C1 (cooldown invariant): any two records passed to the callback for the same
\* identity have timestamps at least recognition_interval apart, and a match
\* that is accepted comes at least recognition_interval after the time the
\* cooldown table held for its identity.
C1_Cooldown ==
    /\ \A i, j \in 1..Len(events) :
          (i < j /\ SameIdentity(i, j)) =>
              events[j].capture_timestamp - events[i].capture_timestamp
                  >= recognition_interval
    /\ (Gated("accepted") /\ hist.pre_times[result.code] # None) =>
          /\ Len(events) = hist.pre_events + 1
          /\ LastEvent.student_id = result.code
          /\ LastEvent.capture_timestamp - hist.pre_times[result.code]
                >= recognition_interval

\* The callback has just received a second record for an identity.
C1_Witness ==
    /\ Gated("accepted")
    /\ \E i \in 1..(Len(events) - 1) : SameIdentity(i, Len(events))

\* C2 as claimed: a suppressed match leaves the callback uninvoked and the
\* overlay text and timestamp as they were before the match cycle.
C2_SuppressedLeavesOverlay ==
    (hist.gate = "suppressed" /\ pc = "display") =>
        /\ Len(events) = hist.pre_events
        /\ last_recognition_text = hist.pre_text
        /\ text_display_time = hist.pre_time

\* C2 as amended: a suppressed match invokes no callback and leaves the
\* cooldown table unchanged, and process_frame then sets the overlay text to the
\* matched identity and the overlay timestamp to the current time.
C2_SuppressedSetsOverlay ==
    (hist.gate = "suppressed" /\ pc = "display") =>
        /\ Len(events) = hist.pre_events
        /\ last_recognition_times = hist.pre_times
        /\ last_recognition_text = result.code
        /\ text_display_time = now

\* A suppressed match has replaced the overlay of the match cycle before it.
C2_Witness ==
    /\ hist.gate = "suppressed"
    /\ pc = "display"
    /\ hist.pre_time # None
    /\ text_display_time # hist.pre_time

\* C3 as claimed: a match of an identity in the cycle of a frame taken at least
\* recognition_interval after the frame of the cycle that accepted it is
\* accepted, whatever the comparator calls of the two cycles took.
C3_ReacceptedByFrameTime ==
    (Gated("suppressed") /\ hist.cycle_frame[result.code] # None) =>
        current_time - hist.cycle_frame[result.code] < recognition_interval

\* C3 as amended: the cooldown runs between the times handle_recognition reads
\* (after the comparator calls), not between the frame times: a match handled
\* at least recognition_interval after the timestamp of the last accepted
\* record of its identity is accepted, and a match that is suppressed was
\* handled less than recognition_interval after it.
C3_ReacceptedByHandleTime ==
    Gated("suppressed") =>
        /\ hist.pre_times[result.code] # None
        /\ hist.handled - hist.pre_times[result.code] < recognition_interval

\* An identity is accepted a second time, exactly recognition_interval after
\* the timestamp of its first record.
C3_Witness ==
    /\ Gated("accepted")
    /\ hist.pre_times[result.code] # None
    /\ hist.handled - hist.pre_times[result.code] = recognition_interval

\* The loop has just rendered and shown a frame.
Rendered == pc \in {"sleep", "returned"} /\ hist.render.at # None

\* C6 as claimed: at every render step the overlay is drawn exactly when a text
\* is set and the time of the render is at most text_duration after the text
\* was set.
C6_ShownByRenderTime ==
    Rendered =>
        (hist.render.drawn <=>
            /\ hist.render.shown_since # None
            /\ hist.render.at - hist.render.shown_since <= text_duration)

\* C6 as amended: at every render step the overlay is drawn exactly when a text
\* is set and the frame's capture time (current_time, line 151, taken before
\* the frame's match cycle) is at most text_duration after the text was set;
\* at the first render where it is not, the overlay state is cleared.
C6_ShownByFrameTime ==
    Rendered =>
        /\ hist.render.drawn <=>
              /\ hist.render.shown_since # None
              /\ hist.render.frame - hist.render.shown_since <= text_duration
        /\ hist.render.drawn =>
              /\ last_recognition_text # NoCode
              /\ text_display_time = hist.render.shown_since
        /\ ~hist.render.drawn =>
              /\ last_recognition_text = NoCode
              /\ text_display_time = None

\* An overlay set by an earlier iteration is drawn on a frame captured exactly
\* text_duration after it was set.
C6_Witness ==
    /\ Rendered
    /\ hist.render.drawn
    /\ hist.render.frame - hist.render.shown_since = text_duration

\* C7: a step of the loop that meets an error (a failed capture, an exception
\* of the capture or the display, a comparator error, a failed scan, an
\* exception of the callback) leaves run_recognition inside its loop.
C7_ErrorsKeepLooping ==
    hist.err # "none" => pc \in {"while", "sleep", "scan", "scanned", "display"}

\* The callback has raised while running, and the loop is about to render.
C7_Witness ==
    /\ hist.err = "callback"
    /\ is_running
    /\ pc = "display"

\* C8 as claimed: whenever run_recognition has returned, stop() has been
\* called, the running flag is false and the camera has been released.
C8_ReturnsOnlyAfterStop ==
    pc = "returned" =>
        /\ hist.stop_called
        /\ ~is_running
        /\ camera # "open"

\* C8 as amended: run_recognition returns either because waitKey reported the
\* 'q' key (line 178), or because the loop condition read the running flag
\* as false after stop() was called; in the second case the flag is false and,
\* once that stop() call has finished, the camera is released.
C8_ReturnsOnStopOrQuit ==
    pc = "returned" =>
        \/ hist.exit = "q"
        \/ /\ hist.exit = "stopped"
           /\ hist.stop_called
           /\ ~is_running
           /\ spc = "idle" => camera # "open"

\* run_recognition has returned on the 'q' key: no stop(), flag true, camera open.
C8_Witness ==
    /\ pc = "returned"
    /\ hist.exit = "q"
    /\ ~hist.stop_called
    /\ is_running
    /\ camera = "open"

\* C9 as claimed: once stop() has been called after run_recognition was called,
\* the loop begins no further iteration, and within the iteration in progress
\* at most one match cycle begins and the callback is invoked at most once.
C9_StopEndsLoop ==
    hist.stop_called =>
        /\ hist.iters = 0
        /\ hist.cycles <= 1
        /\ hist.callbacks <= 1

\* C10 as claimed: once stop() has been called and has finished and the run
\* loop has exited on reading the flag, the camera is released and no display
\* window is open.
C10_ReleasedAfterStop ==
    (pc = "returned" /\ hist.exit = "stopped" /\ hist.stop_called /\ spc = "idle") =>
        /\ camera # "open"
        /\ ~window

\* C11 as claimed: in every reachable state in which the running flag is true
\* the capture device is held open, so that after stop() nothing but a new
\* start makes the loop run again.
C11_RunningHoldsCamera == is_running => camera = "open"

\* C12: within one run a match cycle begins in an iteration exactly when at
\* least recognition_interval seconds lie between the iteration's frame time
\* and the frame time of the previous match cycle of the run (the entry of the
\* run for the first one).
C12_RateLimited ==
    /\ pc = "process" =>
           /\ hist.due = "cycle"
           /\ current_time - hist.prev_cycle >= recognition_interval
    /\ (pc = "display" /\ hist.due = "skip") =>
           current_time - hist.prev_cycle < recognition_interval

\* A match cycle is due in a run whose previous match cycle accepted a match
\* exactly recognition_interval seconds of frame time before.
C12_Witness ==
    /\ pc = "process"
    /\ current_time - hist.prev_cycle = recognition_interval
    /\ \E c \in Stems : hist.cycle_frame[c] = hist.prev_cycle

\* A step of stop() taken by the other thread, or a call of start_camera.
StopOrStartStep ==
    \/ spc' # spc
    \/ pc \in {"idle", "returned"} /\ pc' = "idle"

\* C13: stop() and start_camera leave the cooldown table unchanged, so what
\* the gate suppresses after a restart is what it suppressed before.
C13_TableSurvivesRestart ==
    [][StopOrStartStep => last_recognition_times' = last_recognition_times]_vars

\* After a run that accepted a match, stop() has finished and start_camera has
\* opened the camera again; the entry of the accepted identity is in the table.
C13_Witness ==
    /\ pc = "idle"
    /\ spc = "idle"
    /\ camera = "open"
    /\ ~is_running
    /\ Len(events) > 0
    /\ last_recognition_times[LastEvent.student_id] = LastEvent.capture_timestamp

\* C14 as claimed: after stop() followed by start_camera, before the next run,
\* the overlay text and the overlay timestamp are empty.
C14_RestartClearsOverlay ==
    (/\ pc = "idle"
     /\ spc = "idle"
     /\ camera = "open"
     /\ ~is_running
     /\ Len(events) > 0) =>
        /\ last_recognition_text = NoCode
        /\ text_display_time = None

\* The state as one call of stop() leaves it.
Stopped == ~is_running /\ camera \in {"None", "released"} /\ ~window

\* C15: from every reachable state, stop() called twice in a row leaves what
\* one call leaves: flag false, camera released if there was one, display
\* closed, cooldown table as it was; and a step of stop() taken in the state
\* one call leaves changes none of them.
C15_StopIdempotent ==
    /\ [](LET s == <<is_running, camera, window, last_recognition_times>>
          IN  /\ stop(stop(s)) = stop(s)
              /\ stop(s) = <<FALSE, IF camera = "None" THEN "None" ELSE "released",
                             FALSE, last_recognition_times>>)
    /\ [][(spc' # spc /\ Stopped) =>
             UNCHANGED <<is_running, camera, window, last_recognition_times>>]_vars

\* Since the last start_camera nothing has run but stop(): one call released
\* the camera and finished, and a second call has taken its first step.
C15_Witness ==
    /\ pc = "idle"
    /\ camera = "released"
    /\ spc = "release"
    /\ Stopped
    /\ \E c \in Stems : last_recognition_times[c] # None

\* A call of start_camera in which the device is not opened.
FailedStartStep == camera' = "unopened" /\ camera # "unopened"

\* C16: when the device cannot be opened, start_camera raises to its caller
\* and the processor is left outside the loop with the running flag, the
\* cooldown table and the overlay state as they were.
C16_FailedStartChangesNothing ==
    /\ [][FailedStartStep =>
             /\ hist'.start_error
             /\ pc' = "idle"
             /\ UNCHANGED <<is_running, last_recognition_times,
                            last_recognition_text, text_display_time>>]_vars
    /\ [](hist.start_error => pc = "idle" /\ camera # "open")

\* start_camera has failed after a run that accepted a match and was stopped:
\* the flag is false, the table and the overlay state still hold the match.
C16_Witness ==
    /\ hist.start_error
    /\ camera = "unopened"
    /\ ~is_running
    /\ last_recognition_text # NoCode
    /\ last_recognition_times[last_recognition_text] # None

\* C17 as claimed: when process_frame has handled an accepted match, the
\* cooldown timestamp of the identity is the time of the acceptance, the
\* callback has been invoked once, and the overlay text and timestamp are set
\* to the identity and the current time, whether the callback returned or raised.
C17_AcceptSequenceComplete ==
    (hist.gate = "accepted" /\ pc = "display") =>
        /\ last_recognition_times[result.code] = hist.handled
        /\ Len(events) = hist.pre_events + 1
        /\ last_recognition_text = result.code
        /\ text_display_time = now

\* C18 as claimed: whenever the loop comes back to its condition after a
\* capture attempt, the sleep of line 184 has run since that attempt, also
\* when the capture failed.
C18_SleepsBetweenCaptures == ~(pc = "while" /\ hist.err = "capture")

\* The callback invocations for identity c, as indices of the log.
EventsOf(c) == {i \in 1..Len(events) : events[i].student_id = c}

\* C19: the cooldown table holds exactly the identities the callback was
\* invoked for, each with the timestamp of its most recent invocation; the
\* table is written exactly when the callback is invoked, an entry never
\* decreases and none is removed.
C19_TableMatchesCallbacks ==
    /\ [](\A c \in Stems :
            IF EventsOf(c) = {}
              THEN last_recognition_times[c] = None
              ELSE \E i \in EventsOf(c) :
                      /\ \A j \in EventsOf(c) : j <= i
                      /\ last_recognition_times[c] = events[i].capture_timestamp)
    /\ [][/\ (last_recognition_times' # last_recognition_times)
               <=> (Len(events') = Len(events) + 1)
           /\ Len(events') \in {Len(events), Len(events) + 1}
           /\ \A c \in Stems :
                 last_recognition_times'[c] >= last_recognition_times[c]]_vars

\* The callback has been invoked twice for one identity and never for the
\* other: the table holds the second timestamp and nothing else.
C19_Witness ==
    /\ Len(events) = 2
    /\ SameIdentity(1, 2)
    /\ last_recognition_times[events[2].student_id] = events[2].capture_timestamp
    /\ events[2].capture_timestamp > events[1].capture_timestamp
    /\ \E c \in Stems : last_recognition_times[c] = None

\* C20 as claimed: a reference image that cannot be read is skipped: every
\* readable image file after it, up to the first one that matches, is still
\* compared in the same scan, and when one matches it is the result of the scan.
C20_ReadFailureSkipped ==
    pc = "scanned" =>
        \A i \in ImageIndices(scan.dir) :
            scan.out[i].kind = "readfail" =>
                \A j \in ImageIndices(scan.dir) :
                    (/\ j > i
                     /\ \A k \in ImageIndices(scan.dir) :
                           k < j => scan.out[k].kind # "match")
                    => /\ scan.out[j].kind # "readfail" => j \in Called(scan.calls)
                       /\ scan.out[j].kind = "match" =>
                             result = [code |-> scan.dir[j].stem,
                                       sim |-> scan.out[j].sim]

====
